---- MODULE Spec2Model ----
(***************************************************************************)
(* Model of the adaptive SSH command execution engine                      *)
(* (src/src/tools/ssh-command-manager.ts, class SSHCommandManager), of the *)
(* ephemeral path that drives it (src/src/server.ts, sshExecuteCommand)    *)
(* and of the persistent session registry                                  *)
(* (src/src/tools/ssh-session-manager.ts, class SSHSessionManager).        *)
(*                                                                         *)
(* Text is a sequence of tokens; a token stands for one piece of text (an  *)
(* output chunk, a fixed phrase of a message, a formatted number).         *)
(* String concatenation is \o and String.includes is Includes.             *)
(***************************************************************************)
EXTENDS Integers, Sequences, FiniteSets, TLC

\* ---------------------------------------------------------------- bounds
MaxCmds == 1        \* executeCommand calls made on top of the initial ledger
MaxChunks == 1      \* output chunks the connections deliver through callbacks
MaxConcurrent == 2  \* commands in flight together (SpecMulti)
MaxStreamChunks == 2  \* chunks the connections deliver (SpecStream)

\* ------------------------------------------------------ program constants
MaxCompletedSessions == 100   \* completedSessions.size > 100
SIGINT == 130                 \* session.exitCode = 130
ErrorExitCode == 1            \* session.exitCode = 1 in the catch handler

\* exitCode: number | null; null is modelled by NoCode
NoCode == 0 - 1
\* ledger sizes the manager starts from: empty, or full (the state after that
\* many fast commands with no output and exit code 0)
PreFills == {0, MaxCompletedSessions}

\* ------------------------------------------------------------------ text
Sentinel == <<"No new output available">>
Marker == <<"Command terminated by user.">>
ErrText == <<"Error executing SSH command: ", "boom">>
FinalText == <<"Complete output">>
FinalErrText == <<"Complete errors">>

CodeStr(c) == IF c = NoCode THEN "null" ELSE ToString(c)

Includes(s, t) ==
  \E i \in 0..(Len(s) - Len(t)) : SubSeq(s, i + 1, i + Len(t)) = t

Range(s) == {s[i] : i \in 1..Len(s)}

\* the k-th chunk a command writes to stdout / stderr
OutChunk(k) == <<"o" \o ToString(k)>>
ErrChunk(k) == <<"e" \o ToString(k)>>

VARIABLES
  sessionCounter,    \* this.sessionCounter
  sessions,          \* this.sessions: the keys, in insertion order
  sess,              \* the SSHCommandSession objects, by id (kept alive by the closures)
  cl,                \* the closure variables stdout, stderr of each executeCommand call
  completedSessions, \* this.completedSessions: the records, in insertion order
  exec,              \* state of execPromise of each call
  timer,             \* state of the classification timer of each call
  resolveCalls,      \* the values passed to resolve() by each call, in order
  conn,              \* what the connection produced for each call
  readLog,           \* per id, the concatenation of the unread-buffer reads returned
  everListed,        \* ids ever returned by listActiveSessions
  terminated,        \* ids for which forceTerminate has returned true
  reported,          \* per id, the report getNewOutput returned when it reaped the session
  evicted,           \* ids whose record the ledger dropped for capacity
  disposed,          \* per id, the dispose() calls sshExecuteCommand made on its connection
  budget,            \* what the environment may still do: commands issued, chunks delivered
  regSessions,       \* SSHSessionManager.sessions: session id -> its connection
  sessionTimeouts,   \* SSHSessionManager.sessionTimeouts: session id -> timer handle
  idleTimers,        \* the pending idle timers: handle -> [sid, delay]
  conns,             \* the connections createSession made: [calls, pending, disposeCalls]
  retired,           \* session ids whose idle timer fired and released the connection
  idleOf             \* per session id, the idle window its createSession scheduled

cmdVars == <<sessionCounter, sessions, sess, cl, completedSessions, exec,
             timer, resolveCalls, conn, readLog, everListed, terminated,
             reported, evicted, disposed, budget>>

regVars == <<regSessions, sessionTimeouts, idleTimers, conns, retired, idleOf>>

vars == <<cmdVars, regVars>>

\* ------------------------------------------------------------ map helpers
MapHas(m, id) == \E i \in 1..Len(m) : m[i].id = id
MapIdx(m, id) == CHOOSE i \in 1..Len(m) : m[i].id = id
MapGet(m, id) == m[MapIdx(m, id)]
\* mutant: the record is not inserted
MapSetDropped(m, rec) == m

\* Map.set: a new key goes last, an existing key keeps its place
MapSet(m, rec) ==
  IF MapHas(m, rec.id) THEN [m EXCEPT ![MapIdx(m, rec.id)] = rec]
  ELSE Append(m, rec)
\* Map.set on the key list of this.sessions
KeySet(ks, id) == IF id \in Range(ks) THEN ks ELSE Append(ks, id)

\* mutant: the key is not removed
KeyDeleteNone(ks, id) == ks

\* Map.delete on the key list of this.sessions
KeyDelete(ks, id) == SelectSeq(ks, LAMBDA k : k # id)
MapKeys(m) == {m[i].id : i \in 1..Len(m)}

\* ids a caller may pass: every allocated id, and 0 and 1
ApiIds == DOMAIN sess \cup {0, 1}

\* -------------------------------------------------- listActiveSessions
\* mutant: the filter does not ask for isBlocked
ListActiveIdsUnclassified ==
  {id \in Range(sessions) : ~sess[id].isCompleted}

ListActiveIds ==
  {id \in Range(sessions) : sess[id].isBlocked /\ ~sess[id].isCompleted}

\* ----------------------------------------------- storeCompletedSession
\* so: the session objects, ks: keys of this.sessions, cs: the ledger
\* mutant: the newest record is removed instead of the oldest
EvictNewest(cs) ==
  IF Len(cs) > MaxCompletedSessions THEN SubSeq(cs, 1, Len(cs) - 1) ELSE cs

EvictOldest(cs) ==
  IF Len(cs) > MaxCompletedSessions THEN Tail(cs) ELSE cs

\* mutant: the record is stored without the session's stderr
storeCompletedSessionNoStderr(so, ks, cs, id) ==
  IF id \notin Range(ks) THEN [sessions |-> ks, completed |-> cs]
  ELSE [sessions |-> KeyDelete(ks, id),
        completed |-> EvictOldest(MapSet(cs,
           [id |-> id, stdout |-> so[id].stdout, stderr |-> <<>>,
            exitCode |-> so[id].exitCode]))]

\* mutant: the record is stored whether or not the id is in the active map
storeCompletedSessionUnguarded(so, ks, cs, id) ==
  [sessions |-> KeyDelete(ks, id),
   completed |-> EvictOldest(MapSet(cs,
      [id |-> id, stdout |-> so[id].stdout, stderr |-> so[id].stderr,
       exitCode |-> so[id].exitCode]))]

storeCompletedSession(so, ks, cs, id) ==
  IF id \notin Range(ks) THEN [sessions |-> ks, completed |-> cs]
  ELSE [sessions |-> KeyDelete(ks, id),
        completed |-> EvictOldest(MapSet(cs,
           [id |-> id, stdout |-> so[id].stdout, stderr |-> so[id].stderr,
            exitCode |-> so[id].exitCode]))]

\* --------------------------------------------------- completion report
\* the runtime is a wall-clock reading; it is one token whose value is not modelled
Report(code, stdout, stderr) ==
  <<"SSH Command completed with exit code ", CodeStr(code),
    "Runtime: ", "<runtime>", "s Final output:">> \o stdout
  \o (IF stderr # <<>> THEN <<"Errors:">> \o stderr ELSE <<>>)

\* keys the ledger held before a step and no longer holds after it
Dropped(cs, cs2) == IF cs2 = cs THEN {} ELSE MapKeys(cs) \ MapKeys(cs2)

\* bookkeeping of what has been observed: the ids listed, the records dropped
Track ==
  /\ everListed' = everListed \cup ListActiveIds'
  /\ evicted' = evicted \cup Dropped(completedSessions, completedSessions')

\* ------------------------------------------------------------------ Init
InitLedger(p) ==
  [i \in 1..p |-> [id |-> i, stdout |-> <<>>, stderr |-> <<>>, exitCode |-> 0]]

\* no persistent session has been created
RegEmpty ==
  /\ regSessions = <<>>
  /\ sessionTimeouts = <<>>
  /\ idleTimers = <<>>
  /\ conns = <<>>
  /\ retired = {}
  /\ idleOf = <<>>

Init ==
  /\ \E p \in PreFills :
       /\ sessionCounter = p
       /\ completedSessions = InitLedger(p)
  /\ sessions = <<>>
  /\ sess = <<>>
  /\ cl = <<>>
  /\ exec = <<>>
  /\ timer = <<>>
  /\ resolveCalls = <<>>
  /\ conn = <<>>
  /\ readLog = <<>>
  /\ everListed = {}
  /\ terminated = {}
  /\ reported = <<>>
  /\ evicted = {}
  /\ disposed = <<>>
  /\ budget = [cmds |-> MaxCmds, chunks |-> MaxChunks]
  /\ RegEmpty

\* --------------------------------------------------------------- actions
\* mutant: the id is numbered by the size of the active map, not by a
\* counter that only grows
generateSessionIdBySize == Len(sessions) + 1

\* ssh-cmd-<timestamp>-<counter>: the model keeps the counter part, which is
\* to say that every call is made at the same timestamp
generateSessionId == sessionCounter + 1

\* Map.set(id, v): the entry of id is created or replaced
Put(f, k, v) == [x \in DOMAIN f \cup {k} |-> IF x = k THEN v ELSE f[x]]

ExecuteCommand ==
  /\ Cardinality(DOMAIN sess) < budget.cmds
  /\ LET id == generateSessionId IN
       /\ sessionCounter' = sessionCounter + 1
       /\ sess' = Put(sess, id, [stdout |-> <<>>, stderr |-> <<>>,
                                  lastOutput |-> <<>>, isCompleted |-> FALSE,
                                  exitCode |-> NoCode, isBlocked |-> FALSE])
       /\ sessions' = KeySet(sessions, id)
       /\ cl' = Put(cl, id, [stdout |-> <<>>, stderr |-> <<>>])
       /\ exec' = Put(exec, id, "running")
       /\ timer' = Put(timer, id, "pending")
       /\ resolveCalls' = Put(resolveCalls, id, <<>>)
       /\ conn' = Put(conn, id, [out |-> <<>>, err |-> <<>>, all |-> <<>>,
                                  n |-> 0, code |-> NoCode])
       /\ readLog' = Put(readLog, id, <<>>)
       /\ reported' = Put(reported, id, <<>>)
       /\ disposed' = Put(disposed, id, 0)
  /\ UNCHANGED <<completedSessions, terminated>>
  /\ UNCHANGED <<budget, regVars>>
  /\ Track

\* resolve(v): the value is appended to the calls made on the promise of id
Resolve(rc, id, v) == [rc EXCEPT ![id] = Append(@, v)]

\* mutant: the result carries no exit code
ResultNoCode(id, out, blocked, code) ==
  [id |-> id, output |-> out, isBlocked |-> blocked, exitCode |-> NoCode]

Result(id, out, blocked, code) ==
  [id |-> id, output |-> out, isBlocked |-> blocked, exitCode |-> code]

\* chunks delivered so far, over all commands
RECURSIVE SumN(_, _)
SumN(c, ids) ==
  IF ids = {} THEN 0
  ELSE LET i == CHOOSE x \in ids : TRUE IN c[i].n + SumN(c, ids \ {i})
Delivered == SumN(conn, DOMAIN conn)

\* mutant: the chunk is appended to the unread buffer of every session
OnStdoutShared(id) ==
  /\ exec[id] = "running"
  /\ Delivered < budget.chunks
  /\ LET text == OutChunk(conn[id].n + 1) IN
       /\ cl' = [cl EXCEPT ![id].stdout = @ \o text]
       /\ sess' = [x \in DOMAIN sess |->
                     IF x = id
                       THEN [sess[x] EXCEPT !.stdout = @ \o text,
                                            !.lastOutput = @ \o text]
                       ELSE [sess[x] EXCEPT !.lastOutput = @ \o text]]
       /\ conn' = [conn EXCEPT ![id].out = @ \o text, ![id].all = @ \o text,
                                 ![id].n = @ + 1]
  /\ UNCHANGED <<sessionCounter, sessions, completedSessions, exec,
                 timer, resolveCalls, readLog, terminated, reported, disposed>>
  /\ UNCHANGED <<budget, regVars>>
  /\ Track

\* onStdout callback of execOptions
OnStdout(id) ==
  /\ exec[id] = "running"
  /\ Delivered < budget.chunks
  /\ LET text == OutChunk(conn[id].n + 1) IN
       /\ cl' = [cl EXCEPT ![id].stdout = @ \o text]
       /\ sess' = [sess EXCEPT ![id].stdout = @ \o text,
                               ![id].lastOutput = @ \o text]
       /\ conn' = [conn EXCEPT ![id].out = @ \o text, ![id].all = @ \o text,
                                 ![id].n = @ + 1]
  /\ UNCHANGED <<sessionCounter, sessions, completedSessions, exec,
                 timer, resolveCalls, readLog, terminated, reported, disposed>>
  /\ UNCHANGED <<budget, regVars>>
  /\ Track

\* onStderr callback of execOptions
OnStderr(id) ==
  /\ exec[id] = "running"
  /\ Delivered < budget.chunks
  /\ LET text == ErrChunk(conn[id].n + 1) IN
       /\ cl' = [cl EXCEPT ![id].stderr = @ \o text]
       /\ sess' = [sess EXCEPT ![id].stderr = @ \o text,
                               ![id].lastOutput = @ \o text]
       /\ conn' = [conn EXCEPT ![id].err = @ \o text, ![id].all = @ \o text,
                                 ![id].n = @ + 1]
  /\ UNCHANGED <<sessionCounter, sessions, completedSessions, exec,
                 timer, resolveCalls, readLog, terminated, reported, disposed>>
  /\ UNCHANGED <<budget, regVars>>
  /\ Track

\* clearTimeout(timeoutId): a timer that has fired is not affected
ClearTimeout(t) == IF t = "pending" THEN "cleared" ELSE t

\* mutant: the includes test is not negated
NeedsMergeInverted(acc, final) == final # <<>> /\ Includes(acc, final)

\* final output not captured by the event handlers
NeedsMerge(acc, final) == final # <<>> /\ ~Includes(acc, final)

\* the results {code, stdout, stderr} the connection may resolve with: a
\* success with the chunks it delivered joined together (nothing, if it
\* delivered none), or a failure with texts that no callback delivered
Results(id) ==
  {[code |-> 0, stdout |-> conn[id].out, stderr |-> conn[id].err],
   [code |-> 2, stdout |-> FinalText, stderr |-> FinalErrText]}

\* mutant: the timer resolves with stdout only
TimerResultNoStderr(id) == Result(id, cl[id].stdout, TRUE, NoCode)

\* the value the timer resolves with
TimerResult(id) == Result(id, cl[id].stdout \o cl[id].stderr, TRUE, NoCode)

\* mutant: the completion resolves whatever the classification
ResolvesAlways(s) == TRUE

\* if (!session.isBlocked): the completion resolves the call and stores the session
ResolvesNow(s) == ~s.isBlocked

\* sshExecuteCommand after its await of executeCommand: it runs once, with
\* the first value the promise was resolved with (rc before, rc2 after the
\* handler), and disposes the connection of a result that is not blocked
AwaitResume(id, rc, rc2) ==
  IF rc[id] = <<>> /\ rc2[id] # <<>> /\ ~rc2[id][1].isBlocked
    THEN [disposed EXCEPT ![id] = @ + 1]
    ELSE disposed

\* mutant: the classification also empties the unread buffer
ClassifiedCleared(s) == [s EXCEPT !.isBlocked = TRUE, !.lastOutput = <<>>]

\* session.isBlocked = true: nothing else of the session is written
Classified(s) == [s EXCEPT !.isBlocked = TRUE]

\* setTimeout callback of executeCommand
TimerFire(id) ==
  /\ timer[id] = "pending"
  /\ timer' = [timer EXCEPT ![id] = "fired"]
  /\ IF ~sess[id].isCompleted
       THEN /\ sess' = [sess EXCEPT ![id] = Classified(@)]
            /\ resolveCalls' = Resolve(resolveCalls, id, TimerResult(id))
       ELSE UNCHANGED <<sess, resolveCalls>>
  /\ disposed' = AwaitResume(id, resolveCalls, resolveCalls')
  /\ UNCHANGED <<sessionCounter, sessions, cl, completedSessions, exec, conn,
                 readLog, terminated, reported>>
  /\ UNCHANGED <<budget, regVars>>
  /\ Track

\* execPromise.then handler
ExecThen(id, code, rout, rerr) ==
  /\ exec[id] = "running"
  /\ exec' = [exec EXCEPT ![id] = "resolved"]
  /\ conn' = [conn EXCEPT ![id].code = code]
  /\ timer' = [timer EXCEPT ![id] = ClearTimeout(@)]
  /\ LET mo == IF NeedsMerge(cl[id].stdout, rout) THEN rout ELSE <<>>
         me == IF NeedsMerge(cl[id].stderr, rerr) THEN rerr ELSE <<>>
         so == [sess EXCEPT ![id].isCompleted = TRUE,
                            ![id].exitCode = code,
                            ![id].stdout = @ \o mo,
                            ![id].stderr = @ \o me,
                            ![id].lastOutput = @ \o mo \o me]
         c2 == [cl EXCEPT ![id].stdout = @ \o mo, ![id].stderr = @ \o me]
         st == storeCompletedSession(so, sessions, completedSessions, id)
     IN
       /\ sess' = so
       /\ cl' = c2
       /\ IF ResolvesNow(so[id])
            THEN /\ resolveCalls' = Resolve(resolveCalls, id,
                      Result(id, c2[id].stdout \o c2[id].stderr, FALSE, code))
                 /\ sessions' = st.sessions
                 /\ completedSessions' = st.completed
            ELSE UNCHANGED <<resolveCalls, sessions, completedSessions>>
  /\ disposed' = AwaitResume(id, resolveCalls, resolveCalls')
  /\ UNCHANGED <<sessionCounter, readLog, terminated, reported>>
  /\ UNCHANGED <<budget, regVars>>
  /\ Track

\* execPromise.catch handler
ExecCatch(id) ==
  /\ exec[id] = "running"
  /\ exec' = [exec EXCEPT ![id] = "rejected"]
  /\ timer' = [timer EXCEPT ![id] = ClearTimeout(@)]
  /\ LET so == [sess EXCEPT ![id].isCompleted = TRUE,
                            ![id].exitCode = ErrorExitCode,
                            ![id].stderr = @ \o ErrText,
                            ![id].lastOutput = @ \o ErrText]
         c2 == [cl EXCEPT ![id].stderr = @ \o ErrText]
         st == storeCompletedSession(so, sessions, completedSessions, id)
     IN
       /\ sess' = so
       /\ cl' = c2
       /\ IF ResolvesNow(so[id])
            THEN /\ resolveCalls' = Resolve(resolveCalls, id,
                      Result(id, c2[id].stdout \o c2[id].stderr, FALSE,
                             ErrorExitCode))
                 /\ sessions' = st.sessions
                 /\ completedSessions' = st.completed
            ELSE UNCHANGED <<resolveCalls, sessions, completedSessions>>
  /\ disposed' = AwaitResume(id, resolveCalls, resolveCalls')
  /\ UNCHANGED <<sessionCounter, conn, readLog, terminated, reported>>
  /\ UNCHANGED <<budget, regVars>>
  /\ Track

\* the value getNewOutput(sessionId) returns; null is modelled by NullRet
NullRet == <<"<null>">>

\* mutant: the report of a session in the active map is built from its unread buffer
GetNewOutputRetUnread(id) ==
  IF id \in Range(sessions)
    THEN IF sess[id].isCompleted /\ sess[id].isBlocked
           THEN Report(sess[id].exitCode, sess[id].lastOutput, sess[id].stderr)
           ELSE IF sess[id].lastOutput # <<>> THEN sess[id].lastOutput
                ELSE Sentinel
    ELSE IF MapHas(completedSessions, id)
           THEN LET c == MapGet(completedSessions, id) IN
                Report(c.exitCode, c.stdout, c.stderr)
           ELSE NullRet

\* mutant: an empty unread buffer is returned as it is
GetNewOutputRetNoSentinel(id) ==
  IF id \in Range(sessions)
    THEN IF sess[id].isCompleted /\ sess[id].isBlocked
           THEN Report(sess[id].exitCode, sess[id].stdout, sess[id].stderr)
           ELSE sess[id].lastOutput
    ELSE IF MapHas(completedSessions, id)
           THEN LET c == MapGet(completedSessions, id) IN
                Report(c.exitCode, c.stdout, c.stderr)
           ELSE NullRet

GetNewOutputRet(id) ==
  IF id \in Range(sessions)
    THEN IF sess[id].isCompleted /\ sess[id].isBlocked
           THEN Report(sess[id].exitCode, sess[id].stdout, sess[id].stderr)
           ELSE IF sess[id].lastOutput # <<>> THEN sess[id].lastOutput
                ELSE Sentinel
    ELSE IF MapHas(completedSessions, id)
           THEN LET c == MapGet(completedSessions, id) IN
                Report(c.exitCode, c.stdout, c.stderr)
           ELSE NullRet

\* mutant: the unread buffer is not cleared
DrainedNot(s) == s

\* const output = session.lastOutput; session.lastOutput = ''
Drained(s) == [s EXCEPT !.lastOutput = <<>>]

\* mutant: reading the record of a ledger id removes it from the ledger
GetNewOutputConsuming(id) ==
  /\ IF id \in Range(sessions)
       THEN IF sess[id].isCompleted /\ sess[id].isBlocked
              THEN LET st == storeCompletedSession(sess, sessions,
                                                   completedSessions, id)
                   IN /\ sessions' = st.sessions
                      /\ completedSessions' = st.completed
                      /\ reported' = [reported EXCEPT ![id] = GetNewOutputRet(id)]
                      /\ UNCHANGED <<sess, readLog>>
              ELSE /\ sess' = [sess EXCEPT ![id] = Drained(@)]
                   /\ readLog' = [readLog EXCEPT ![id] = @ \o sess[id].lastOutput]
                   /\ UNCHANGED <<sessions, completedSessions, reported>>
       ELSE /\ completedSessions'
                 = SelectSeq(completedSessions, LAMBDA r : r.id # id)
            /\ UNCHANGED <<sess, sessions, readLog, reported>>
  /\ UNCHANGED <<sessionCounter, cl, exec, timer, resolveCalls, conn, terminated,
                 disposed>>
  /\ UNCHANGED <<budget, regVars>>
  /\ Track

\* getNewOutput(sessionId)
GetNewOutput(id) ==
  /\ IF id \in Range(sessions)
       THEN IF sess[id].isCompleted /\ sess[id].isBlocked
              THEN LET st == storeCompletedSession(sess, sessions,
                                                   completedSessions, id)
                   IN /\ sessions' = st.sessions
                      /\ completedSessions' = st.completed
                      /\ reported' = [reported EXCEPT ![id] = GetNewOutputRet(id)]
                      /\ UNCHANGED <<sess, readLog>>
              ELSE /\ sess' = [sess EXCEPT ![id] = Drained(@)]
                   /\ readLog' = [readLog EXCEPT ![id] = @ \o sess[id].lastOutput]
                   /\ UNCHANGED <<sessions, completedSessions, reported>>
       ELSE UNCHANGED <<sess, sessions, completedSessions, readLog, reported>>
  /\ UNCHANGED <<sessionCounter, cl, exec, timer, resolveCalls, conn, terminated,
                 disposed>>
  /\ UNCHANGED <<budget, regVars>>
  /\ Track

\* the value forceTerminate(sessionId) returns
ForceTerminateRet(id) == id \in Range(sessions)

\* forceTerminate(sessionId)
ForceTerminate(id) ==
  /\ IF id \notin Range(sessions)
       THEN UNCHANGED <<sess, sessions, completedSessions, terminated>>
       ELSE LET so == [sess EXCEPT ![id].isCompleted = TRUE,
                                   ![id].exitCode = SIGINT,
                                   ![id].lastOutput = @ \o Marker]
                st == storeCompletedSession(so, sessions, completedSessions, id)
            IN /\ sess' = so
               /\ sessions' = st.sessions
               /\ completedSessions' = st.completed
               /\ terminated' = terminated \cup {id}
  /\ UNCHANGED <<sessionCounter, cl, exec, timer, resolveCalls, conn, readLog,
                 reported, disposed>>
  /\ UNCHANGED <<budget, regVars>>
  /\ Track

Next ==
  \/ ExecuteCommand
  \/ \E id \in DOMAIN sess : OnStdout(id)
  \/ \E id \in DOMAIN sess : OnStderr(id)
  \/ \E id \in DOMAIN sess : TimerFire(id)
  \/ \E id \in DOMAIN sess : \E r \in Results(id) :
       ExecThen(id, r.code, r.stdout, r.stderr)
  \/ \E id \in DOMAIN sess : ExecCatch(id)
  \/ \E id \in ApiIds : GetNewOutput(id)
  \/ \E id \in ApiIds : ForceTerminate(id)

Spec == Init /\ [][Next]_vars

\* ------------------------------------------- several commands in flight
\* an empty manager; the connections are silent (they deliver no chunk
\* through the callbacks) and MaxConcurrent commands may be issued
InitMulti ==
  /\ sessionCounter = 0
  /\ completedSessions = <<>>
  /\ sessions = <<>>
  /\ sess = <<>>
  /\ cl = <<>>
  /\ exec = <<>>
  /\ timer = <<>>
  /\ resolveCalls = <<>>
  /\ conn = <<>>
  /\ readLog = <<>>
  /\ everListed = {}
  /\ terminated = {}
  /\ reported = <<>>
  /\ evicted = {}
  /\ disposed = <<>>
  /\ budget = [cmds |-> MaxConcurrent, chunks |-> 0]
  /\ RegEmpty

NextMulti ==
  \/ ExecuteCommand
  \/ \E id \in DOMAIN sess : TimerFire(id)
  \/ \E id \in DOMAIN sess : \E r \in Results(id) :
       ExecThen(id, r.code, r.stdout, r.stderr)
  \/ \E id \in DOMAIN sess : ExecCatch(id)
  \/ \E id \in ApiIds : GetNewOutput(id)
  \/ \E id \in ApiIds : ForceTerminate(id)

SpecMulti == InitMulti /\ [][NextMulti]_vars

\* ------------------------------------------------- a longer output stream
\* an empty manager whose connections may deliver MaxStreamChunks chunks
InitStream ==
  /\ sessionCounter = 0
  /\ completedSessions = <<>>
  /\ sessions = <<>>
  /\ sess = <<>>
  /\ cl = <<>>
  /\ exec = <<>>
  /\ timer = <<>>
  /\ resolveCalls = <<>>
  /\ conn = <<>>
  /\ readLog = <<>>
  /\ everListed = {}
  /\ terminated = {}
  /\ reported = <<>>
  /\ evicted = {}
  /\ disposed = <<>>
  /\ budget = [cmds |-> MaxCmds, chunks |-> MaxStreamChunks]
  /\ RegEmpty

SpecStream == InitStream /\ [][Next]_vars

\* ================================================== persistent sessions
\* src/src/tools/ssh-session-manager.ts, class SSHSessionManager

MaxSessions == 2          \* createSession calls that connect
MaxOps == 1               \* run / upload / download calls that reach a connection
MaxReleaseFailures == 1   \* the first dispose() calls, which may throw

DEFAULT_IDLE_TIMEOUT == 1800000   \* 30 * 60 * 1000
\* the idleTimeout argument of createSession: omitted, or a caller's value
NoIdleTimeout == 0
CustomIdleTimeout == 60000
IdleTimeouts == {NoIdleTimeout, CustomIdleTimeout}

\* the strings generateSessionId can build (target, timestamp, random suffix)
SessionIds == 1..MaxSessions

\* maps as functions: Map.delete (Map.set is Put)
Without(f, k) == [x \in DOMAIN f \ {k} |-> f[x]]
Values(f) == {f[x] : x \in DOMAIN f}

\* the registry, as one value
Reg ==
  [sessions |-> regSessions, timeouts |-> sessionTimeouts,
   timers |-> idleTimers, conns |-> conns]

\* this.sessions.has(sessionId)
hasSession(sid) == sid \in DOMAIN regSessions

\* Array.from(this.sessions.keys())
getActiveSessions == DOMAIN regSessions

\* the error getSession throws for sid, NoError if it returns the connection
NoError == <<>>
getSessionError(R, sid) ==
  IF sid \in DOMAIN R.sessions THEN NoError
  ELSE <<"SSH session not found: ", ToString(sid)>>

\* a timer handle that no pending timer and no map entry uses
NewHandle(R) ==
  CHOOSE h \in 1..(Cardinality(DOMAIN R.timers)
                   + Cardinality(DOMAIN R.timeouts) + 1) :
    h \notin DOMAIN R.timers /\ h \notin Values(R.timeouts)

\* clearTimeout(h): a timer that fired or was cleared is not affected
clearTimeout(R, h) == [R EXCEPT !.timers = Without(@, h)]

\* mutant: the map entry is deleted and the timer is left pending
clearIdleTimeoutEntryOnly(R, sid) ==
  IF sid \in DOMAIN R.timeouts
    THEN [R EXCEPT !.timeouts = Without(@, sid)]
    ELSE R

clearIdleTimeout(R, sid) ==
  IF sid \in DOMAIN R.timeouts
    THEN [clearTimeout(R, R.timeouts[sid]) EXCEPT !.timeouts = Without(@, sid)]
    ELSE R

setupIdleTimeout(R, sid, timeout) ==
  LET C == clearIdleTimeout(R, sid)
      h == NewHandle(C)
  IN [C EXCEPT !.timers = Put(@, h, [sid |-> sid, delay |-> timeout]),
               !.timeouts = Put(@, sid, h)]

resetIdleTimeout(R, sid) ==
  IF sid \in DOMAIN R.timeouts
    THEN setupIdleTimeout(clearTimeout(R, R.timeouts[sid]), sid,
                          DEFAULT_IDLE_TIMEOUT)
    ELSE R

\* mutant: the idle timer is not cancelled
closeSessionKeepsTimer(R, sid, ok) ==
  IF sid \notin DOMAIN R.sessions THEN R
  ELSE LET c == R.sessions[sid]
           D == [R EXCEPT !.conns[c].disposeCalls = @ + 1]
       IN IF ok THEN [D EXCEPT !.sessions = Without(@, sid)] ELSE D

\* mutant: the entry is not removed from this.sessions
closeSessionKeepsEntry(R, sid, ok) ==
  IF sid \notin DOMAIN R.sessions THEN R
  ELSE [clearIdleTimeout(R, sid)
          EXCEPT !.conns[R.sessions[sid]].disposeCalls = @ + 1]

\* closeSession(sessionId); ok: ssh.dispose() returns (it throws otherwise)
closeSession(R, sid, ok) ==
  IF sid \notin DOMAIN R.sessions THEN R
  ELSE LET c == R.sessions[sid]
           D == [clearIdleTimeout(R, sid) EXCEPT !.conns[c].disposeCalls = @ + 1]
       IN IF ok THEN [D EXCEPT !.sessions = Without(@, sid)] ELSE D

\* what closeSession throws: nothing, the unknown-session error of
\* getSession, or the error of dispose, each behind the same prefix
closeSessionError(R, sid, ok) ==
  IF sid \notin DOMAIN R.sessions
    THEN <<"Failed to close SSH session: ">> \o getSessionError(R, sid)
    ELSE IF ok THEN NoError
         ELSE <<"Failed to close SSH session: ", "dispose failed">>

\* dispose() calls made on all connections so far
RECURSIVE SumDisposeCalls(_, _)
SumDisposeCalls(cs, i) ==
  IF i = 0 THEN 0 ELSE cs[i].disposeCalls + SumDisposeCalls(cs, i - 1)

\* the outcomes the next dispose() may have: it returns, or it throws
ReleaseOutcomes(R) ==
  IF SumDisposeCalls(R.conns, Len(R.conns)) < MaxReleaseFailures
    THEN BOOLEAN ELSE {TRUE}

\* the registry variables take the value R
SetReg(R) ==
  /\ regSessions' = R.sessions
  /\ sessionTimeouts' = R.timeouts
  /\ idleTimers' = R.timers
  /\ conns' = R.conns

\* mutant: the connection is attempted without a password or a key
createSessionErrorNoAuthCheck(auth, connected) ==
  IF ~connected
    THEN <<"Failed to create SSH session: ", "connect failed">>
    ELSE NoError

\* what createSession throws: the missing-credentials error raised before
\* ssh.connect, the error of ssh.connect, or nothing
createSessionError(auth, connected) ==
  IF ~auth
    THEN <<"Failed to create SSH session: ",
           "Either password or privateKeyPath must be provided">>
    ELSE IF ~connected
      THEN <<"Failed to create SSH session: ", "connect failed">>
      ELSE NoError

\* createSession(config, idleTimeout), from the point where ssh.connect has
\* settled. auth: a password or a key was given; connected: the handshake
\* succeeded; sid: the id generateSessionId builds
CreateSession(auth, connected, idleTimeout, sid) ==
  /\ Len(conns) < MaxSessions
  /\ IF createSessionError(auth, connected) = NoError
       THEN LET c == Len(conns) + 1
                timeout == IF idleTimeout # NoIdleTimeout THEN idleTimeout
                           ELSE DEFAULT_IDLE_TIMEOUT
                R == [Reg EXCEPT
                        !.conns = Append(@, [calls |-> 0, pending |-> 0,
                                             disposeCalls |-> 0]),
                        !.sessions = Put(@, sid, c)]
            IN /\ SetReg(setupIdleTimeout(R, sid, timeout))
               /\ idleOf' = Put(idleOf, sid, timeout)
       ELSE UNCHANGED <<regSessions, sessionTimeouts, idleTimers, conns, idleOf>>
  /\ UNCHANGED <<retired, cmdVars>>

\* operations started on all connections so far
RECURSIVE SumCalls(_, _)
SumCalls(cs, i) == IF i = 0 THEN 0 ELSE cs[i].calls + SumCalls(cs, i - 1)

\* mutant: an id that is not registered falls through to the connection
\* opened last
SessionOpAnyConnection(sid) ==
  /\ SumCalls(conns, Len(conns)) < MaxOps
  /\ IF hasSession(sid)
       THEN LET c == regSessions[sid]
                R == resetIdleTimeout(Reg, sid)
            IN SetReg([R EXCEPT !.conns[c].calls = @ + 1,
                                !.conns[c].pending = @ + 1])
       ELSE IF Len(conns) > 0
         THEN /\ conns' = [conns EXCEPT ![Len(conns)].calls = @ + 1,
                                        ![Len(conns)].pending = @ + 1]
              /\ UNCHANGED <<regSessions, sessionTimeouts, idleTimers>>
         ELSE UNCHANGED <<regSessions, sessionTimeouts, idleTimers, conns>>
  /\ UNCHANGED <<idleOf, retired, cmdVars>>

\* executeCommand / uploadFile / downloadFile up to their await:
\* getSession, resetIdleTimeout, then the call on the connection
SessionOp(sid) ==
  /\ SumCalls(conns, Len(conns)) < MaxOps
  /\ IF hasSession(sid)
       THEN LET c == regSessions[sid]
                R == resetIdleTimeout(Reg, sid)
            IN SetReg([R EXCEPT !.conns[c].calls = @ + 1,
                                !.conns[c].pending = @ + 1])
       ELSE UNCHANGED <<regSessions, sessionTimeouts, idleTimers, conns>>
  /\ UNCHANGED <<idleOf, retired, cmdVars>>

\* executeCommand(sessionId, command, cwd, options): ssh.execCommand
SessionExecuteCommand(sid) == SessionOp(sid)

\* uploadFile(sessionId, localPath, remotePath): ssh.putFile
uploadFile(sid) == SessionOp(sid)

\* downloadFile(sessionId, localPath, remotePath): ssh.getFile
downloadFile(sid) == SessionOp(sid)

\* the call on connection c settles: the operation returns its result or
\* throws its wrapped error
SessionOpSettles(c) ==
  /\ conns[c].pending > 0
  /\ conns' = [conns EXCEPT ![c].pending = @ - 1]
  /\ UNCHANGED <<regSessions, sessionTimeouts, idleTimers, idleOf, retired,
                 cmdVars>>

\* closeSession(sessionId), called by sshDisconnect
CloseSession(sid, ok) ==
  /\ ok \in ReleaseOutcomes(Reg)
  /\ SetReg(closeSession(Reg, sid, ok))
  /\ UNCHANGED <<idleOf, retired, cmdVars>>

\* mutant: the ids after the first close that fails are not closed
RECURSIVE closeEachUntilFailure(_, _, _)
closeEachUntilFailure(R, ids, oks) ==
  IF ids = {} THEN R
  ELSE LET sid == CHOOSE x \in ids : \A y \in ids : x <= y
           ok == oks[sid] \/ FALSE \notin ReleaseOutcomes(R)
       IN IF ok THEN closeEachUntilFailure(closeSession(R, sid, ok),
                                           ids \ {sid}, oks)
          ELSE closeSession(R, sid, ok)

\* closeAllSessions(): closeSession runs to its end for each id in turn
\* (it awaits nothing); oks gives the outcome of each dispose
RECURSIVE closeEach(_, _, _)
closeEach(R, ids, oks) ==
  IF ids = {} THEN R
  ELSE LET sid == CHOOSE x \in ids : \A y \in ids : x <= y
       IN closeEach(closeSession(R, sid, oks[sid] \/ FALSE \notin ReleaseOutcomes(R)),
                    ids \ {sid}, oks)

CloseAllSessions(oks) ==
  /\ SetReg(closeEach(Reg, getActiveSessions, oks))
  /\ UNCHANGED <<idleOf, retired, cmdVars>>

\* mutant: the timer callback only disposes the connection
idleCallbackDisposeOnly(R, sid, ok) ==
  IF sid \in DOMAIN R.sessions
    THEN [R EXCEPT !.conns[R.sessions[sid]].disposeCalls = @ + 1]
    ELSE R

\* the callback setupIdleTimeout hands to setTimeout
idleCallback(R, sid, ok) ==
  IF sid \in DOMAIN R.sessions THEN closeSession(R, sid, ok) ELSE R

\* the idle timer h fires
IdleTimerFire(h, ok) ==
  LET sid == idleTimers[h].sid
      R == idleCallback(clearTimeout(Reg, h), sid, ok)
  IN /\ ok \in ReleaseOutcomes(Reg)
     /\ SetReg(R)
     /\ retired' = IF hasSession(sid) /\ ok THEN retired \cup {sid} ELSE retired
     /\ UNCHANGED <<idleOf, cmdVars>>

\* an id whose session an idle timer evicted is not built again: the
\* timestamp in it has passed by the time the timer fires
SessionIdChoices == SessionIds \ retired

InitReg ==
  /\ sessionCounter = 0
  /\ completedSessions = <<>>
  /\ sessions = <<>>
  /\ sess = <<>>
  /\ cl = <<>>
  /\ exec = <<>>
  /\ timer = <<>>
  /\ resolveCalls = <<>>
  /\ conn = <<>>
  /\ readLog = <<>>
  /\ everListed = {}
  /\ terminated = {}
  /\ reported = <<>>
  /\ evicted = {}
  /\ disposed = <<>>
  /\ budget = [cmds |-> 0, chunks |-> 0]
  /\ RegEmpty

NextReg ==
  \/ \E auth \in BOOLEAN, connected \in BOOLEAN, t \in IdleTimeouts :
       \E sid \in SessionIdChoices : CreateSession(auth, connected, t, sid)
  \/ \E sid \in SessionIds : SessionExecuteCommand(sid)
  \/ \E sid \in SessionIds : uploadFile(sid)
  \/ \E sid \in SessionIds : downloadFile(sid)
  \/ \E c \in DOMAIN conns : SessionOpSettles(c)
  \/ \E sid \in SessionIds, ok \in BOOLEAN : CloseSession(sid, ok)
  \/ \E oks \in [getActiveSessions -> BOOLEAN] : CloseAllSessions(oks)
  \/ \E h \in DOMAIN idleTimers, ok \in BOOLEAN : IdleTimerFire(h, ok)

SpecReg == InitReg /\ [][NextReg]_vars

\* ================================================================ claims
\* the call of id has been classified Streaming / Fast
Streaming(id) == resolveCalls[id] # <<>> /\ resolveCalls[id][1].isBlocked
Fast(id) == resolveCalls[id] # <<>> /\ ~resolveCalls[id][1].isBlocked

\* C1: a command whose successful completion is observed while the
\* classification timer is still pending resolves executeCommand with
\* isBlocked = false, the exit code the connection reported and an output
\* that contains every chunk and every final text the connection produced,
\* and its id is never returned by listActiveSessions, before or after.
C1_FastStep ==
  \A id \in DOMAIN sess : \A r \in Results(id) :
    (ExecThen(id, r.code, r.stdout, r.stderr) /\ timer[id] = "pending") =>
      /\ resolveCalls[id] = <<>>
      /\ Len(resolveCalls'[id]) = 1
      /\ LET v == resolveCalls'[id][1] IN
           /\ v.id = id
           /\ v.isBlocked = FALSE
           /\ v.exitCode = r.code
           /\ Includes(v.output, conn[id].out)
           /\ Includes(v.output, conn[id].err)
           /\ Includes(v.output, r.stdout)
           /\ Includes(v.output, r.stderr)
      /\ id \notin everListed'

C1_FastNeverListed ==
  \A id \in DOMAIN sess :
    (exec[id] = "resolved" /\ timer[id] = "cleared") =>
      Fast(id) /\ id \notin everListed /\ id \notin ListActiveIds

C1_Fast == [][C1_FastStep]_vars /\ []C1_FastNeverListed

C1_Witness ==
  \E id \in DOMAIN sess :
    /\ exec[id] = "resolved"
    /\ timer[id] = "cleared"
    /\ Fast(id)
    /\ resolveCalls[id][1].exitCode = 2
    /\ Includes(resolveCalls[id][1].output, OutChunk(1) \o FinalText)

\* C2: when the classification timer fires on a command that is still
\* running (neither completed nor force-terminated), executeCommand resolves
\* in that step with isBlocked = true, the command's id, exitCode null and the
\* output accumulated so far; from then on the id is returned by
\* listActiveSessions in every state until the command completes or
\* forceTerminate(id) is called.
C2_TimerStep ==
  \A id \in DOMAIN sess :
    (TimerFire(id) /\ exec[id] = "running" /\ id \notin terminated) =>
      /\ resolveCalls[id] = <<>>
      /\ resolveCalls'[id] =
           <<[id |-> id, output |-> conn[id].out \o conn[id].err,
              isBlocked |-> TRUE, exitCode |-> NoCode]>>
      /\ id \in ListActiveIds'

C2_ListedWhileRunning ==
  \A id \in DOMAIN sess :
    (Streaming(id) /\ exec[id] = "running" /\ id \notin terminated) =>
      id \in ListActiveIds

C2_Streaming == [][C2_TimerStep]_vars /\ []C2_ListedWhileRunning

C2_Witness ==
  \E id \in DOMAIN sess :
    /\ Streaming(id)
    /\ exec[id] = "running"
    /\ id \in ListActiveIds
    /\ resolveCalls[id][1].output = ErrChunk(1)
    /\ readLog[id] = ErrChunk(1)

\* C3: every executeCommand call is resolved no later than the firing of its
\* classification timer: once the timer of a call is no longer pending (it
\* fired, or a completion cancelled it), the call has been resolved.
C3_ResolvedByTimer ==
  \A id \in DOMAIN sess : timer[id] # "pending" => resolveCalls[id] # <<>>

\* C4: each executeCommand call is resolved at most once, and the
\* classification never changes: a resolved call keeps its resolution, a
\* session marked blocked stays blocked, and the session's isBlocked flag
\* always agrees with the resolution the caller got.
C4_OnceState ==
  \A id \in DOMAIN sess :
    /\ Len(resolveCalls[id]) <= 1
    /\ resolveCalls[id] # <<>> =>
         resolveCalls[id][1].isBlocked = sess[id].isBlocked

C4_OnceStep ==
  \A id \in DOMAIN sess :
    /\ resolveCalls[id] # <<>> => resolveCalls'[id] = resolveCalls[id]
    /\ sess[id].isBlocked => sess'[id].isBlocked
    /\ (Streaming(id) /\ exec[id] = "running" /\ exec'[id] # "running") =>
         /\ sess'[id].isCompleted
         /\ sess'[id].exitCode # NoCode

C4_SingleResolution == []C4_OnceState /\ [][C4_OnceStep]_vars

C4_Witness ==
  \E id \in DOMAIN sess :
    /\ Streaming(id)
    /\ timer[id] = "fired"
    /\ exec[id] \in {"resolved", "rejected"}
    /\ sess[id].isCompleted

ExitCodeText(c) == <<"SSH Command completed with exit code ", CodeStr(c)>>

\* C5: forceTerminate(id) on an active (Streaming, still running) command
\* session makes the next getNewOutput(id) return text that contains both
\* the exit code 130 and the marker 'Command terminated by user'.
C5_TerminateStep ==
  \A id \in DOMAIN sess :
    (ForceTerminate(id) /\ id \in ListActiveIds) =>
      /\ Includes(GetNewOutputRet(id)', ExitCodeText(SIGINT))
      /\ Includes(GetNewOutputRet(id)', Marker)

C5_TerminationMarker == [][C5_TerminateStep]_vars

\* the command of id is known to the manager / has already completed
Known(id) == id \in DOMAIN sess \/ MapHas(completedSessions, id)
AlreadyCompleted(id) ==
  \/ id \notin DOMAIN sess /\ MapHas(completedSessions, id)
  \/ id \in DOMAIN sess /\ (exec[id] # "running" \/ id \in terminated)

\* C6: forceTerminate(id) returns false and changes no state when id is
\* unknown or names a command that has already completed, including a
\* Streaming command that finished but whose completion was not yet read.
C6_TerminateCompletedStep ==
  \A id \in ApiIds :
    (ForceTerminate(id) /\ (~Known(id) \/ AlreadyCompleted(id))) =>
      /\ ~ForceTerminateRet(id)
      /\ UNCHANGED <<sess, sessions, completedSessions>>

C6_TerminateCompleted == [][C6_TerminateCompletedStep]_vars

\* C7 (as stated): once a Streaming command has completed, its session is
\* marked completed with an exit code, is out of the active set and is in
\* the completed ledger, whether or not getNewOutput was called.
C7_MovedOnCompletion ==
  \A id \in DOMAIN sess :
    (Streaming(id) /\ exec[id] # "running") =>
      /\ sess[id].isCompleted
      /\ sess[id].exitCode # NoCode
      /\ id \notin Range(sessions)
      /\ MapHas(completedSessions, id)

\* C7 (amended): the completion of a Streaming command that is still in the
\* active map marks the session completed and records its exit code, and
\* leaves both the active map and the completed ledger unchanged; the move
\* into the ledger is made by the next getNewOutput(id) or forceTerminate(id).
C7_LazyStep ==
  \A id \in DOMAIN sess :
    /\ \A r \in Results(id) :
         (Streaming(id) /\ id \in Range(sessions)
            /\ ExecThen(id, r.code, r.stdout, r.stderr)) =>
           /\ sess'[id].isCompleted
           /\ sess'[id].exitCode = r.code
           /\ UNCHANGED <<sessions, completedSessions>>
    /\ (Streaming(id) /\ id \in Range(sessions) /\ ExecCatch(id)) =>
           /\ sess'[id].isCompleted
           /\ sess'[id].exitCode = ErrorExitCode
           /\ UNCHANGED <<sessions, completedSessions>>
    /\ (Streaming(id) /\ exec[id] # "running" /\ id \in Range(sessions)
          /\ (GetNewOutput(id) \/ ForceTerminate(id))) =>
           /\ id \notin Range(sessions')
           /\ MapHas(completedSessions', id)

C7_LazyMove == [][C7_LazyStep]_vars

C7_Witness ==
  \E id \in DOMAIN sess :
    /\ Streaming(id)
    /\ exec[id] = "rejected"
    /\ sess[id].isCompleted
    /\ sess[id].exitCode = ErrorExitCode
    /\ id \in Range(sessions)
    /\ ~MapHas(completedSessions, id)

\* C8: after a Streaming command completes, the next getNewOutput(id) returns
\* a completion report with the recorded exit code and takes the id out of
\* the active set for good; every later getNewOutput(id) returns the same
\* report from the ledger for as long as the ledger holds the record.
C8_SameReport ==
  \A id \in DOMAIN sess :
    reported[id] # <<>> =>
      /\ Streaming(id)
      /\ exec[id] # "running"
      /\ SubSeq(reported[id], 1, 2) = ExitCodeText(sess[id].exitCode)
      /\ id \notin Range(sessions)
      /\ MapHas(completedSessions, id) => GetNewOutputRet(id) = reported[id]

C8_Witness ==
  \E id \in DOMAIN sess :
    /\ reported[id] = Report(2, OutChunk(1) \o FinalText, FinalErrText)
    /\ id \notin Range(sessions)
    /\ GetNewOutputRet(id) = reported[id]

\* no token occurs twice in s
NoDup(s) == \A i, j \in 1..Len(s) : s[i] = s[j] => i = j

\* C9: getNewOutput drains a running session: the reads returned so far
\* followed by the unread buffer are exactly the chunks delivered, in order,
\* so no chunk is returned by two reads; a read returns the unread output and
\* leaves the session in a state where the next read returns the sentinel.
C9_DrainState ==
  \A id \in DOMAIN sess :
    /\ NoDup(readLog[id])
    /\ (exec[id] = "running" /\ id \notin terminated) =>
         readLog[id] \o sess[id].lastOutput = conn[id].all

C9_DrainStep ==
  \A id \in DOMAIN sess :
    (GetNewOutput(id) /\ exec[id] = "running" /\ id \notin terminated) =>
      /\ GetNewOutputRet(id) =
           (IF sess[id].lastOutput # <<>> THEN sess[id].lastOutput ELSE Sentinel)
      /\ readLog'[id] = readLog[id] \o sess[id].lastOutput
      /\ GetNewOutputRet(id)' = Sentinel

C9_Draining == []C9_DrainState /\ [][C9_DrainStep]_vars

C9_Witness ==
  \E id \in DOMAIN sess :
    /\ exec[id] = "running"
    /\ id \notin terminated
    /\ readLog[id] = OutChunk(1)
    /\ sess[id].lastOutput = <<>>
    /\ GetNewOutputRet(id) = Sentinel

\* C10: the completed ledger never holds more than 100 records; storing a
\* session in a ledger of 100 records removes exactly the record inserted
\* earliest and keeps all the others in order, and storing one in a smaller
\* ledger keeps every record.
C10_LedgerStep ==
  \A id \in Range(sessions) :
    id \notin Range(sessions') =>
      IF Len(completedSessions) = MaxCompletedSessions
        THEN /\ Len(completedSessions') = MaxCompletedSessions
             /\ SubSeq(completedSessions', 1, MaxCompletedSessions - 1)
                  = Tail(completedSessions)
             /\ completedSessions'[MaxCompletedSessions].id = id
        ELSE /\ Len(completedSessions') = Len(completedSessions) + 1
             /\ SubSeq(completedSessions', 1, Len(completedSessions))
                  = completedSessions
             /\ completedSessions'[Len(completedSessions')].id = id

C10_BoundedLedger ==
  [](Len(completedSessions) <= MaxCompletedSessions) /\ [][C10_LedgerStep]_vars

C10_Witness ==
  /\ Len(completedSessions) = MaxCompletedSessions
  /\ completedSessions[1].id = 2
  /\ completedSessions[MaxCompletedSessions].id = MaxCompletedSessions + 1

\* C11: in every reachable state, each command id that has been allocated
\* (the initial ledger's ids and the ids executeCommand handed out) and whose
\* record the ledger has not dropped for capacity is in exactly one of the
\* active-session map and the completed ledger: never in both, never in
\* neither.
C11_ExactlyOne ==
  LET active == Range(sessions)
      ledger == MapKeys(completedSessions)
  IN \A id \in 1..sessionCounter :
       id \notin evicted => ((id \in active) # (id \in ledger))

\* a command has moved from the active map to a full ledger, which dropped
\* its oldest record for it
C11_Witness ==
  /\ evicted # {}
  /\ \E id \in DOMAIN sess :
       id \in MapKeys(completedSessions) /\ id \notin Range(sessions)

\* C12: listActiveSessions returns exactly the ids of the commands that were
\* classified Streaming, whose completion has not been handled and for which
\* forceTerminate has not returned true; several commands running together
\* are all listed, and an id that was terminated or has completed is, from
\* then on, not listed.
C12_ListedExactly ==
  ListActiveIds =
    {id \in DOMAIN sess :
       Streaming(id) /\ exec[id] = "running" /\ id \notin terminated}

\* two commands, both classified Streaming and still running, are listed
\* together
C12_Witness ==
  \E a \in ListActiveIds : \E b \in ListActiveIds :
    /\ a # b
    /\ Streaming(a) /\ exec[a] = "running"
    /\ Streaming(b) /\ exec[b] = "running"

\* C13: for a command that was classified Streaming and then completed
\* naturally (its completion was handled and forceTerminate never returned
\* true for it), the completion report that getNewOutput returned when it
\* next ran contains every stdout chunk the connection delivered, those
\* delivered before the timer fired and those delivered after it, in
\* delivery order, and the exit code the connection reported; what was
\* still unread at completion, stderr included, is in the report.
C13_CompleteReport ==
  \A id \in DOMAIN sess :
    (/\ reported[id] # <<>>
     /\ Streaming(id)
     /\ exec[id] = "resolved"
     /\ id \notin terminated) =>
      /\ Includes(reported[id], conn[id].out)
      /\ Includes(reported[id], conn[id].err)
      /\ Includes(reported[id],
                  <<"SSH Command completed with exit code ",
                    CodeStr(conn[id].code)>>)

\* chunk 1 came before the timer (it is the initial output) and was read,
\* chunk 2 came after it and was never read before the completion
C13_Witness ==
  \E id \in DOMAIN sess :
    /\ reported[id] # <<>>
    /\ exec[id] = "resolved"
    /\ id \notin terminated
    /\ Streaming(id)
    /\ resolveCalls[id][1].output = OutChunk(1)
    /\ conn[id].out = OutChunk(1) \o OutChunk(2)
    /\ readLog[id] = OutChunk(1)

\* C14: when the execution promise of a command rejects while the
\* classification timer is still pending, executeCommand does not throw: the
\* catch handler resolves the call, for the first time, with isBlocked =
\* false, exitCode 1 and an output that ends with the error message; the
\* message is appended to the session's stderr; the id is then in the
\* completed ledger and not in the active map, and the record stored for a
\* session that was still active carries exit code 1 and the message.
C14_RejectStep ==
  \A id \in DOMAIN sess :
    (exec[id] = "running" /\ timer[id] = "pending" /\ ExecCatch(id)) =>
      /\ resolveCalls[id] = <<>>
      /\ Len(resolveCalls'[id]) = 1
      /\ LET v == resolveCalls'[id][1] IN
           /\ v.id = id
           /\ ~v.isBlocked
           /\ v.exitCode = ErrorExitCode
           /\ v.output = cl[id].stdout \o cl[id].stderr \o ErrText
      /\ sess'[id].stderr = sess[id].stderr \o ErrText
      /\ sess'[id].exitCode = ErrorExitCode
      /\ id \notin Range(sessions')
      /\ MapHas(completedSessions', id)
      /\ id \in Range(sessions) =>
           LET c == MapGet(completedSessions', id) IN
             /\ c.exitCode = ErrorExitCode
             /\ c.stderr = sess[id].stderr \o ErrText
             /\ c.stdout = sess[id].stdout

C14_FailedBeforeClassification == [][C14_RejectStep]_vars

\* a command that had written to stderr was rejected before its timer fired
\* and sits in the ledger with exit code 1
C14_Witness ==
  \E id \in DOMAIN sess :
    /\ exec[id] = "rejected"
    /\ timer[id] = "cleared"
    /\ id \notin terminated
    /\ Fast(id)
    /\ resolveCalls[id][1].exitCode = ErrorExitCode
    /\ conn[id].err # <<>>
    /\ MapHas(completedSessions, id)
    /\ MapGet(completedSessions, id).stderr = conn[id].err \o ErrText

\* ------------------------------------------------ fair scheduling
\* every step that is possible and changes the state is eventually taken:
\* the event loop runs each queued callback, the remote command ends or
\* fails, and the caller keeps polling and terminating
SpecFair == Init /\ [][Next]_vars /\ WF_vars(Next)

\* the ids executeCommand can hand out from the initial ledgers
CmdIds == {p + k : p \in PreFills, k \in 1..MaxCmds}

\* C15: on the ephemeral path, the connection sshExecuteCommand created for a
\* command is eventually disposed, whatever becomes of the command: Fast,
\* Streaming and later completed, or Streaming and abandoned with
\* forceTerminate.
Released(id) == id \in DOMAIN disposed /\ disposed[id] > 0

\* the command of id was classified Streaming and has since completed or
\* been terminated
StreamingOver(id) ==
  /\ id \in DOMAIN sess
  /\ Streaming(id)
  /\ (exec[id] # "running" \/ id \in terminated)

C15_EventuallyReleased ==
  \A id \in CmdIds :
    /\ [](id \in DOMAIN sess => <>(Released(id) \/ StreamingOver(id)))
    /\ [](StreamingOver(id) => <>Released(id))

\* the pending idle timers of session id sid
TimersOf(T, sid) == {h \in DOMAIN T : T[h].sid = sid}

\* C16: once the idle timer of a persistent session has fired and evicted
\* it, the id is not registered; a later run, upload or download on it fails
\* with the unknown-session error of getSession and leaves the registry as
\* it was: no operation is started on any connection and no timer is set.
C16_EvictedStep ==
  \A sid \in retired :
    /\ ~hasSession(sid)
    /\ getSessionError(Reg, sid) = <<"SSH session not found: ", ToString(sid)>>
    /\ (SessionExecuteCommand(sid) \/ uploadFile(sid) \/ downloadFile(sid))
         => UNCHANGED regVars

C16_EvictedIsUnknown == [][C16_EvictedStep]_vars

\* a session was used, then evicted by its idle timer, and the operation it
\* had started has settled
C16_Witness ==
  \E sid \in retired :
    /\ ~hasSession(sid)
    /\ \E c \in DOMAIN conns :
         conns[c].calls > 0 /\ conns[c].pending = 0 /\ conns[c].disposeCalls = 1

\* C17: a run, upload or download on a registered session whose idle timer
\* is pending reschedules the eviction one idle window after that use, the
\* window being the idleTimeout the session was created with (30 minutes
\* when none was given).
C17_ResetStep ==
  \A sid \in SessionIds :
    (/\ hasSession(sid)
     /\ sid \in DOMAIN sessionTimeouts
     /\ (SessionExecuteCommand(sid) \/ uploadFile(sid) \/ downloadFile(sid))) =>
      /\ sid \in DOMAIN sessionTimeouts'
      /\ sessionTimeouts'[sid] \in DOMAIN idleTimers'
      /\ idleTimers'[sessionTimeouts'[sid]].delay = idleOf[sid]

C17_FullWindow == [][C17_ResetStep]_vars

\* C18: in every reachable state each session id has at most one pending
\* idle timer, and it is the one the timer map holds for the id; setting or
\* resetting the timer of an id leaves no earlier timer of that id pending.
C18_OneTimer ==
  \A sid \in SessionIds :
    /\ Cardinality(TimersOf(idleTimers, sid)) <= 1
    /\ \A h \in TimersOf(idleTimers, sid) :
         sid \in DOMAIN sessionTimeouts /\ sessionTimeouts[sid] = h

\* a session id was created twice and its timer was then reset by a use
C18_Witness ==
  \E sid \in SessionIds :
    /\ hasSession(sid)
    /\ regSessions[sid] > 1
    /\ conns[regSessions[sid]].calls > 0
    /\ Cardinality(TimersOf(idleTimers, sid)) = 1

\* C19: when the idle timer of a registered session fires, the registry
\* ends in the state an explicit closeSession of that id would have left
\* from the same state with the same outcome of dispose; when dispose
\* returns, the connection has been released once more, and the timer entry,
\* every pending timer of the id and the session entry are gone. When the
\* session is not registered at the firing, sessions, timer entries and
\* connections are left as they were.
C19_FireStep ==
  \A h \in DOMAIN idleTimers : \A ok \in BOOLEAN :
    (h \notin DOMAIN idleTimers' /\ IdleTimerFire(h, ok)) =>
      LET sid == idleTimers[h].sid
          C == closeSession(Reg, sid, ok)
      IN IF hasSession(sid)
           THEN /\ Reg' = C
                /\ ok => /\ sid \notin DOMAIN regSessions'
                         /\ sid \notin DOMAIN sessionTimeouts'
                         /\ TimersOf(idleTimers', sid) = {}
                         /\ conns'[regSessions[sid]].disposeCalls
                              = conns[regSessions[sid]].disposeCalls + 1
           ELSE UNCHANGED <<regSessions, sessionTimeouts, conns>>

C19_FiringIsClose == [][C19_FireStep]_vars

\* an idle timer has fired on a registered session and evicted it
C19_Witness ==
  \E sid \in retired :
    /\ ~hasSession(sid)
    /\ sid \notin DOMAIN sessionTimeouts
    /\ TimersOf(idleTimers, sid) = {}
    /\ \E c \in DOMAIN conns : conns[c].disposeCalls = 1

\* C20: closeSession(id) on a registered id cancels its idle timer, calls
\* dispose on its connection exactly once and removes the entry, so that the
\* id is not listed and getSession fails for it; on an id that is not
\* registered it fails with the unknown-session error and changes nothing.
C20_CloseStep ==
  \A sid \in SessionIds : \A ok \in BOOLEAN :
    CloseSession(sid, ok) =>
      IF hasSession(sid)
        THEN /\ sid \notin DOMAIN sessionTimeouts'
             /\ TimersOf(idleTimers', sid) = {}
             /\ conns'[regSessions[sid]].disposeCalls
                  = conns[regSessions[sid]].disposeCalls + 1
             /\ sid \notin getActiveSessions'
             /\ getSessionError(Reg', sid) # NoError
        ELSE /\ closeSessionError(Reg, sid, ok)
                  = <<"Failed to close SSH session: ",
                      "SSH session not found: ", ToString(sid)>>
             /\ UNCHANGED regVars

C20_Close == [][C20_CloseStep]_vars

\* C21: executeCommand, uploadFile and downloadFile on an id that is not in
\* the registry fail with the unknown-session error of getSession, start no
\* call on any connection, and leave the session map, the timeout map and
\* every pending idle timer as they were.
C21_UnknownStep ==
  \A sid \in SessionIds :
    (/\ ~hasSession(sid)
     /\ SessionExecuteCommand(sid) \/ uploadFile(sid) \/ downloadFile(sid))
      => /\ getSessionError(Reg, sid)
              = <<"SSH session not found: ", ToString(sid)>>
         /\ UNCHANGED <<regSessions, sessionTimeouts, idleTimers, conns>>

C21_UnknownIdIsNoOp == [][C21_UnknownStep]_vars

\* an operation can be tried on an id that is not registered while another
\* session is registered with its idle timer pending and an open connection
C21_Witness ==
  \E sid \in SessionIds :
    /\ ~hasSession(sid)
    /\ SumCalls(conns, Len(conns)) < MaxOps
    /\ \E other \in getActiveSessions :
         /\ TimersOf(idleTimers, other) # {}
         /\ conns[regSessions[other]].disposeCalls = 0

\* C22: createSession fails when the configuration has neither a password
\* nor a private key, and when the handshake fails; in both cases no session
\* entry is registered and no idle timer is scheduled (the registry is as it
\* was), and in no other case does it fail.
C22_FailStep ==
  \A auth \in BOOLEAN, connected \in BOOLEAN, t \in IdleTimeouts :
    \A sid \in SessionIds :
      CreateSession(auth, connected, t, sid) =>
        IF auth /\ connected
          THEN /\ createSessionError(auth, connected) = NoError
               /\ sid \in getActiveSessions'
          ELSE /\ createSessionError(auth, connected) # NoError
               /\ UNCHANGED <<regSessions, sessionTimeouts, idleTimers, conns>>

C22_FailedCreateRegistersNothing == [][C22_FailStep]_vars

\* a createSession can fail next to a registered session: the registry has
\* an entry with its timer, and room for the connection that is refused
C22_Witness ==
  /\ Len(conns) < MaxSessions
  /\ \E sid \in getActiveSessions : TimersOf(idleTimers, sid) # {}
  /\ createSessionError(FALSE, TRUE) # NoError
  /\ createSessionError(TRUE, FALSE) # NoError

\* C23: a createSession that succeeds returns an id that no registered
\* session holds, so that it leaves the connection and the idle timer of
\* every registered session as they were.
C23_FreshStep ==
  \A auth \in BOOLEAN, connected \in BOOLEAN, t \in IdleTimeouts :
    \A sid \in SessionIds :
      (/\ CreateSession(auth, connected, t, sid)
       /\ createSessionError(auth, connected) = NoError)
        => /\ ~hasSession(sid)
           /\ \A other \in getActiveSessions :
                /\ regSessions'[other] = regSessions[other]
                /\ other \in DOMAIN sessionTimeouts
                     => /\ other \in DOMAIN sessionTimeouts'
                        /\ sessionTimeouts'[other] = sessionTimeouts[other]

C23_IdsNeverReused == [][C23_FreshStep]_vars

\* C24: after any sequence of createSession, closeSession, closeAllSessions
\* and idle evictions, getActiveSessions lists exactly the sessions that
\* were created and not closed or evicted since: every connection that
\* createSession opened and on which no close was attempted is the
\* connection of a listed id, and every listed id has such an opened
\* connection (so the list is empty once all of them are closed).
C24_ListedExactly ==
  /\ \A c \in DOMAIN conns :
       conns[c].disposeCalls = 0
         => \E sid \in getActiveSessions : regSessions[sid] = c
  /\ \A sid \in getActiveSessions : regSessions[sid] \in DOMAIN conns

\* closeAllSessions has called dispose once on the connection of every
\* registered session, has left the entries that remain as they were and
\* has cancelled every idle timer
C25_Attempted ==
  \A sid \in getActiveSessions :
    /\ conns'[regSessions[sid]].disposeCalls
         = conns[regSessions[sid]].disposeCalls + 1
    /\ sid \in getActiveSessions' => regSessions'[sid] = regSessions[sid]
    /\ sid \notin DOMAIN sessionTimeouts'
    /\ TimersOf(idleTimers', sid) = {}

\* a step that opens a connection, registers an id or starts or ends a call
\* on a connection is not a step of closeAllSessions
C25_NotAClose ==
  \/ Len(conns') # Len(conns)
  \/ ~(getActiveSessions' \subseteq getActiveSessions)
  \/ \E c \in DOMAIN conns : conns'[c].calls # conns[c].calls
  \/ \E c \in DOMAIN conns : conns'[c].pending # conns[c].pending

\* C25: closeAllSessions is best-effort per id: whatever the outcome oks of
\* each dispose, a step of closeAllSessions(oks) has called dispose once on
\* the connection of every registered session, whether or not the close of
\* another session failed, has removed every session whose dispose returned,
\* and has cancelled the idle timer of every session. (Written so that the
\* cheap tests come first: a step is either no close at all, or it has
\* attempted every close and removed the ones that succeeded, or it is not
\* a step of closeAllSessions.)
C25_CloseAllStep ==
  \/ C25_NotAClose
  \/ IF C25_Attempted
       THEN \A oks \in [getActiveSessions -> BOOLEAN] :
              \/ \A sid \in getActiveSessions :
                   oks[sid] => sid \notin getActiveSessions'
              \/ ~CloseAllSessions(oks)
       ELSE \A oks \in [getActiveSessions -> BOOLEAN] : ~CloseAllSessions(oks)

C25_CloseAllBestEffort == [][C25_CloseAllStep]_vars

\* closeAllSessions has run over two sessions and the release of one of
\* them failed: that one is still registered, without a timer, and the
\* connection of the other was disposed and its entry removed
C25_Witness ==
  /\ Len(conns) = 2
  /\ \A c \in DOMAIN conns : conns[c].disposeCalls = 1
  /\ Cardinality(getActiveSessions) = 1
  /\ sessionTimeouts = <<>>
  /\ idleTimers = <<>>

\* sessions that are created and then left alone: no run, upload, download
\* or close is called, and a pending idle timer fires
NextIdle ==
  \/ \E auth \in BOOLEAN, connected \in BOOLEAN, t \in IdleTimeouts :
       \E sid \in SessionIdChoices : CreateSession(auth, connected, t, sid)
  \/ \E h \in DOMAIN idleTimers, ok \in BOOLEAN : IdleTimerFire(h, ok)

SpecIdle ==
  /\ InitReg
  /\ [][NextIdle]_vars
  /\ WF_vars(\E h \in DOMAIN idleTimers, ok \in BOOLEAN : IdleTimerFire(h, ok))

\* C26: a registered session is eventually closed without any caller asking
\* for it: once it is no longer used its idle timer fires, and its entry is
\* removed from the registry.
C26_EventuallyEvicted ==
  \A sid \in SessionIds : hasSession(sid) ~> ~hasSession(sid)

\* C27: a run on a persistent session does not close it: when the call on
\* connection c settles and no close or idle eviction has touched c, some
\* id is still registered with c as its connection and has a pending idle
\* timer; the step starts no command session.
C27_SettleStep ==
  \A c \in DOMAIN conns :
    (SessionOpSettles(c) /\ conns[c].disposeCalls = 0)
      => /\ \E sid \in getActiveSessions' :
              /\ regSessions'[sid] = c
              /\ sid \in DOMAIN sessionTimeouts'
              /\ TimersOf(idleTimers', sid) # {}
         /\ UNCHANGED cmdVars

C27_RunKeepsSession == [][C27_SettleStep]_vars

\* id is a key of the ledger and not of the active map
LedgerOnly(id) == id \notin Range(sessions) /\ MapHas(completedSessions, id)

\* C28: getNewOutput(id) for an id that is in the ledger and not in the
\* active set is a pure read: the call changes neither the ledger nor the
\* active set nor any session, and the report it returns for the id is the
\* same after every step of the manager for as long as the id stays in the
\* ledger. (A step that leaves the ledger, the active map and the session
\* objects as they were satisfies both parts, and is tested first.)
C28_ReadStep ==
  \A id \in DOMAIN sess \cup {1} :
    \/ id \in Range(sessions)
    \/ UNCHANGED <<completedSessions, sessions, sess>>
    \/ ~MapHas(completedSessions, id)
    \/ /\ ~GetNewOutput(id)
       /\ LedgerOnly(id)' => GetNewOutputRet(id)' = GetNewOutputRet(id)

C28_LedgerReadIsPure == [][C28_ReadStep]_vars

\* a command that produced output is in the ledger and not in the active
\* set, and its report has already been returned once
C28_Witness ==
  \E id \in DOMAIN sess :
    /\ LedgerOnly(id)
    /\ MapGet(completedSessions, id).stdout # <<>>
    /\ reported[id] = GetNewOutputRet(id)

\* C29: getNewOutput(id) returns null exactly when the id is neither a key
\* of the active map nor a key of the ledger, and for an id that is one of
\* the two it never returns the empty string: an empty unread buffer is
\* returned as the sentinel text.
C29_NullIffUnknown ==
  \A id \in ApiIds \cup evicted :
    /\ GetNewOutputRet(id) = NullRet
         <=> (id \notin Range(sessions) /\ id \notin MapKeys(completedSessions))
    /\ GetNewOutputRet(id) # <<>>
    /\ (id \in Range(sessions) /\ sess[id].lastOutput = <<>>
        /\ ~(sess[id].isCompleted /\ sess[id].isBlocked))
         => GetNewOutputRet(id) = Sentinel

\* a running command whose unread buffer has been read empty answers with
\* the sentinel, next to an id that was never allocated and answers null
C29_Witness ==
  /\ \E id \in Range(sessions) :
       /\ sess[id].lastOutput = <<>>
       /\ readLog[id] # <<>>
       /\ GetNewOutputRet(id) = Sentinel
  /\ \E id \in ApiIds :
       /\ id \notin DOMAIN sess
       /\ id \notin MapKeys(completedSessions)
       /\ GetNewOutputRet(id) = NullRet

\* C30: a Fast command is in the ledger when executeCommand resolves: at the
\* step that resolves the call with isBlocked = false the id is not a key of
\* the active map, and getNewOutput(id) returns the report of a record
\* whose exit code is the exit code the call resolved with.
C30_FastStep ==
  \A id \in DOMAIN sess :
    (resolveCalls[id] = <<>> /\ Fast(id)')
      => /\ id \notin Range(sessions')
         /\ MapHas(completedSessions', id)
         /\ GetNewOutputRet(id)'
              = Report(resolveCalls'[id][1].exitCode,
                       MapGet(completedSessions', id).stdout,
                       MapGet(completedSessions', id).stderr)

C30_FastIsRecorded == [][C30_FastStep]_vars

\* the two managers side by side: SSHCommandManager with silent connections,
\* or SSHSessionManager; they share no state, so a run moves one of them
InitTimers == InitMulti \/ InitReg

NextTimers ==
  \/ budget.cmds > 0 /\ NextMulti
  \/ budget.cmds = 0 /\ NextReg

SpecTimers == InitTimers /\ [][NextTimers]_vars

\* a command that has completed or failed has no pending classification
\* timer; an id that is not registered has no timeout entry and no pending
\* idle timer, so that every idle timer that fires finds its session
C31_NoStrayTimer ==
  /\ \A id \in DOMAIN sess : exec[id] # "running" => timer[id] # "pending"
  /\ \A sid \in SessionIds :
       ~hasSession(sid)
         => sid \notin DOMAIN sessionTimeouts /\ TimersOf(idleTimers, sid) = {}

\* the completion or the error of a command cancels its pending timer, and
\* a cancelled timer stays cancelled: it never fires
C31_CancelStep ==
  \A id \in DOMAIN sess :
    /\ (exec[id] = "running" /\ exec'[id] # "running" /\ timer[id] = "pending")
         => timer'[id] = "cleared"
    /\ timer[id] = "cleared" => timer'[id] = "cleared"

\* C31: a timer whose event has already happened never acts: the
\* classification timer of a command that completes or fails first is
\* cancelled and never fires, and once a persistent session is closed no
\* timeout entry and no pending idle timer is left for its id.
C31_TimersCancelled == []C31_NoStrayTimer /\ [][C31_CancelStep]_vars

\* a command completed before its classification timer fired, and the
\* timer is cancelled
C31_Witness ==
  \E id \in DOMAIN sess :
    /\ exec[id] # "running"
    /\ timer[id] = "cleared"
    /\ Fast(id)

\* ------------------------------- several commands in flight, with output
\* an empty manager: MaxConcurrent commands may be issued and their
\* connections deliver MaxStreamChunks chunks between them; only the
\* callbacks run (chunks, timers, completions and errors)
InitIso ==
  /\ sessionCounter = 0
  /\ completedSessions = <<>>
  /\ sessions = <<>>
  /\ sess = <<>>
  /\ cl = <<>>
  /\ exec = <<>>
  /\ timer = <<>>
  /\ resolveCalls = <<>>
  /\ conn = <<>>
  /\ readLog = <<>>
  /\ everListed = {}
  /\ terminated = {}
  /\ reported = <<>>
  /\ evicted = {}
  /\ disposed = <<>>
  /\ budget = [cmds |-> MaxConcurrent, chunks |-> MaxStreamChunks]
  /\ RegEmpty

NextIso ==
  \/ ExecuteCommand
  \/ \E id \in DOMAIN sess : OnStdout(id)
  \/ \E id \in DOMAIN sess : OnStderr(id)
  \/ \E id \in DOMAIN sess : TimerFire(id)
  \/ \E id \in DOMAIN sess : \E r \in Results(id) :
       ExecThen(id, r.code, r.stdout, r.stderr)
  \/ \E id \in DOMAIN sess : ExecCatch(id)

SpecIso == InitIso /\ [][NextIso]_vars

\* a callback of the call of id runs: a chunk, the timer, the completion
\* or the error
CallbackOf(id) ==
  \/ OnStdout(id)
  \/ OnStderr(id)
  \/ TimerFire(id)
  \/ ExecCatch(id)
  \/ \E r \in Results(id) : ExecThen(id, r.code, r.stdout, r.stderr)

\* while a command runs, its accumulated stdout and stderr are the chunks
\* its connection delivered on each stream, in that order, and its unread
\* buffer is all of them in the order of delivery (nothing is read here)
C32_InOrder ==
  \A id \in DOMAIN sess :
    exec[id] = "running"
      => /\ sess[id].stdout = conn[id].out
         /\ sess[id].stderr = conn[id].err
         /\ sess[id].lastOutput = conn[id].all

\* a chunk, timer firing, completion or error of command a changes no
\* field of the session of another command, and not its closure buffers
C32_IsolationStep ==
  \A a \in DOMAIN sess :
    CallbackOf(a) =>
      \A b \in DOMAIN sess \ {a} :
        /\ sess'[b] = sess[b]
        /\ cl'[b] = cl[b]
        /\ resolveCalls'[b] = resolveCalls[b]

\* C32: with several commands in flight, each chunk is appended, in the
\* order the connection delivers it, to the accumulated and unread buffers
\* of the command it belongs to and to no other: a chunk, timer firing or
\* completion of one command leaves every field of every other command
\* session unchanged.
C32_Isolated == []C32_InOrder /\ [][C32_IsolationStep]_vars

\* two commands run at once; one has received two chunks, in order, and
\* the other has received none and its buffers are empty
C32_Witness ==
  \E a \in DOMAIN sess : \E b \in DOMAIN sess \ {a} :
    /\ exec[a] = "running" /\ exec[b] = "running"
    /\ Len(conn[a].all) = 2
    /\ sess[a].lastOutput = conn[a].all
    /\ sess[b].lastOutput = <<>> /\ sess[b].stdout = <<>> /\ sess[b].stderr = <<>>

\* ------------------------------------- connections with a final text
\* a connection that resolves with the complete stdout, of which the
\* callbacks delivered the first part only
ResultsExtending(id) ==
  IF conn[id].out # <<>>
    THEN {[code |-> 0, stdout |-> conn[id].out \o FinalText,
           stderr |-> conn[id].err]}
    ELSE {}

NextMerge ==
  \/ ExecuteCommand
  \/ \E id \in DOMAIN sess : OnStdout(id)
  \/ \E id \in DOMAIN sess : OnStderr(id)
  \/ \E id \in DOMAIN sess : TimerFire(id)
  \/ \E id \in DOMAIN sess : \E r \in Results(id) \cup ResultsExtending(id) :
       ExecThen(id, r.code, r.stdout, r.stderr)
  \/ \E id \in DOMAIN sess : ExecCatch(id)
  \/ \E id \in ApiIds : GetNewOutput(id)

SpecMerge == InitStream /\ [][NextMerge]_vars

\* C33: on completion the connection's final stdout (stderr) is appended to
\* the accumulated buffer only when it is non-empty and not contained in
\* what the callbacks accumulated, so that no text the callbacks captured
\* occurs twice in the accumulated buffers, which are what the result and
\* the completion report are built from.
C33_MergeStep ==
  \A id \in DOMAIN sess : \A r \in Results(id) \cup ResultsExtending(id) :
    ExecThen(id, r.code, r.stdout, r.stderr) =>
      /\ sess'[id].stdout
           = IF r.stdout # <<>> /\ ~Includes(cl[id].stdout, r.stdout)
               THEN sess[id].stdout \o r.stdout ELSE sess[id].stdout
      /\ sess'[id].stderr
           = IF r.stderr # <<>> /\ ~Includes(cl[id].stderr, r.stderr)
               THEN sess[id].stderr \o r.stderr ELSE sess[id].stderr
      /\ NoDup(sess'[id].stdout)
      /\ NoDup(sess'[id].stderr)
      /\ NoDup(cl'[id].stdout \o cl'[id].stderr)

C33_NoDuplicateOutput == [][C33_MergeStep]_vars

\* C34: the ids of one manager are fresh: the id a call of executeCommand
\* issues (calls at one timestamp included) is neither in the active map nor
\* in the completed ledger, the call leaves the session and the ledger record
\* of every other id as they were, and every id issued so far is at most the
\* counter, which only grows.
C34_Issued ==
  \A id \in DOMAIN sess \cup Range(sessions) \cup MapKeys(completedSessions) :
    id <= sessionCounter

C34_FreshStep ==
  ExecuteCommand =>
    LET id == generateSessionId IN
      /\ id \notin DOMAIN sess
      /\ id \notin Range(sessions)
      /\ id \notin MapKeys(completedSessions)
      /\ sessionCounter' > sessionCounter
      /\ sessions' = Append(sessions, id)
      /\ \A b \in DOMAIN sess : sess'[b] = sess[b] /\ cl'[b] = cl[b]
      /\ completedSessions' = completedSessions

C34_FreshIds == []C34_Issued /\ [][C34_FreshStep]_vars

\* a second call was made while the first call's session was active and
\* a third id's record, or the first's, was in the ledger
C34_Witness ==
  \E a, b \in DOMAIN sess :
    /\ a # b
    /\ a \in Range(sessions)
    /\ b \in MapKeys(completedSessions)
    /\ sessionCounter >= 2

\* the ledger records filed under id
RecordsOf(cs, id) == {i \in 1..Len(cs) : cs[i].id = id}

\* C35: once forceTerminate(id) has returned true, the id is not in the
\* active map, the ledger holds one record for it with exit code 130, and a
\* chunk, a timer firing, a completion or an error of that command arriving
\* afterwards leaves the ledger and the active map as they are.
C35_Terminated ==
  \A id \in terminated :
    /\ id \notin Range(sessions)
    /\ Cardinality(RecordsOf(completedSessions, id)) = 1
    /\ MapGet(completedSessions, id).exitCode = SIGINT

C35_LateStep ==
  \A id \in terminated :
    CallbackOf(id) =>
      /\ completedSessions' = completedSessions
      /\ sessions' = sessions

C35_TerminatedIsFinal == []C35_Terminated /\ [][C35_LateStep]_vars

\* the command completed after it was terminated: the session object has
\* the exit code of the completion, the ledger record has 130
C35_Witness ==
  \E id \in terminated :
    /\ exec[id] = "resolved"
    /\ sess[id].exitCode # SIGINT
    /\ sess[id].stdout # <<>>
    /\ MapGet(completedSessions, id).exitCode = SIGINT

\* a session classified Streaming whose command still runs and of which no
\* read has returned output yet
UnreadStreaming(id) ==
  /\ id \in Range(sessions)
  /\ sess[id].isBlocked
  /\ exec[id] = "running"
  /\ readLog[id] = <<>>

\* C36: the classification as Streaming writes isBlocked and nothing else of
\* the session, the unread buffer included, so the first getNewOutput(id) on
\* the still-running session returns everything delivered since the command
\* started, the chunks of the initial output among them.
C36_FirstRead ==
  \A id \in DOMAIN sess :
    UnreadStreaming(id) =>
      /\ sess[id].lastOutput = conn[id].all
      /\ GetNewOutputRet(id)
           = IF conn[id].all = <<>> THEN Sentinel ELSE conn[id].all
      /\ Range(resolveCalls[id][1].output) \subseteq Range(conn[id].all)

C36_ClassifyStep ==
  \A id \in DOMAIN sess :
    (TimerFire(id) /\ ~sess[id].isCompleted) =>
      /\ sess'[id] = [sess[id] EXCEPT !.isBlocked = TRUE]
      /\ UnreadStreaming(id)' = (readLog[id] = <<>> /\ exec[id] = "running")

C36_UnreadKept == []C36_FirstRead /\ [][C36_ClassifyStep]_vars

\* the first read is about to return the initial output and a chunk that
\* came after the classification
C36_Witness ==
  \E id \in DOMAIN sess :
    /\ UnreadStreaming(id)
    /\ resolveCalls[id][1].output # <<>>
    /\ Len(conn[id].all) > Len(resolveCalls[id][1].output)
    /\ GetNewOutputRet(id) = conn[id].all

\* C37: the idle timer of a session does not close it while a run, an
\* upload or a download on its connection is in flight (retired grows by
\* the id exactly when an idle timer closes the session).
C37_EvictStep ==
  \A sid \in SessionIds :
    (sid \in retired' /\ sid \notin retired)
      => conns[regSessions[sid]].pending = 0

C37_NoEvictionInFlight == [][C37_EvictStep]_vars

\* C38: between registry operations the ids with a pending idle timer are
\* the registered ids: a registered session has one timer-map entry and one
\* pending timer, an id that is not registered has neither.
C38_TimersMatchSessions ==
  /\ DOMAIN sessionTimeouts = getActiveSessions
  /\ \A sid \in SessionIds :
       Cardinality(TimersOf(idleTimers, sid)) = IF hasSession(sid) THEN 1 ELSE 0
====
